---- MODULE Spec2Model ----
(***************************************************************************)
(* TypeScriptCompilerAction (kist-action-typescript): one invocation of    *)
(* execute(), from the destructuring of its options to the resolution or   *)
(* rejection of the returned promise (Spec, FairSpec, SpecSinks), and two  *)
(* invocations of one process, one after the other (SpecRepeat) or         *)
(* interleaved (SpecConcurrent).                                           *)
(*                                                                         *)
(* Strings that the code builds by concatenation are modelled as sequences *)
(* of string tokens, so that "a" + "b" is <<"a">> \o <<"b">>; a path is    *)
(* the sequence of its segments, absolute when its first segment is "/";   *)
(* the empty string is the empty sequence.  An option value is a record    *)
(* [kind, val] whose val is such a token sequence.                         *)
(***************************************************************************)
EXTENDS Integers, Sequences, FiniteSets, TLC

\* ------------------------------------------------------------------------
\* Bounds of the model
\* ------------------------------------------------------------------------
MaxKeys == 1
MaxPreDiags == 2
MaxEmitDiags == 1
MaxDescribes == 2

\* ------------------------------------------------------------------------
\* Text tokens
\* ------------------------------------------------------------------------
NL == "\n"
Indent == "  "
Prefix == "TypeScript compilation failed: "
ReadPrefix == "Error reading tsconfig.json: "
ParsePrefix == "Error parsing tsconfig.json: "
CompilingText == "Compiling TypeScript using configuration: "
SuccessText == "TypeScript compilation completed successfully."
ErrorLogPrefix == "TypeScript Error: "
CatchText == "Error during TypeScript compilation:"
DescribeText ==
    <<"Compiles ", "TypeScript", " files using a given ", "tsconfig", ".json configuration.">>

\* ------------------------------------------------------------------------
\* Paths (node's path module, posix)
\* ------------------------------------------------------------------------
Root == "/"
IsAbsolute(p) == Len(p) > 0 /\ p[1] = Root
\* path.resolve(p) with the process working directory dir
PathResolve(dir, p) == IF IsAbsolute(p) THEN p ELSE dir \o p
\* path.dirname(p) of an absolute path with at least one segment
PathDirname(p) == SubSeq(p, 1, Len(p) - 1)

ProjectDir == <<Root, "proj">>
OtherDir == <<Root, "work">>
DefaultTsconfigPath == <<"tsconfig.json">>
ConfigFilePath == ProjectDir \o DefaultTsconfigPath

\* ------------------------------------------------------------------------
\* Option values
\* ------------------------------------------------------------------------
Str(s) == [kind |-> "string", val |-> s]
Bool(b) == [kind |-> "boolean", val |-> <<b>>]
Num(n) == [kind |-> "number", val |-> <<n>>]
Undefined == [kind |-> "undefined", val |-> <<>>]

\* The option grammar of the engine, restricted to three declarations:
\* target (enumerated), declaration (boolean), outDir (string, file path).
OptionNames == {"target", "declaration", "outDir"}
UnknownNames == {"declaraton"}
JsonKeys == OptionNames \cup UnknownNames
\* Iteration order of the keys of a JSON object
KeyOrder == <<"target", "declaration", "outDir", "declaraton">>
JsonValues == {Str(<<"es5">>), Bool("true")}
TargetMap == [n \in {<<"es5">>, <<"es2020">>} |-> IF n = <<"es5">> THEN Num("1") ELSE Num("7")]

\* All JSON objects with at most n of the keys K and values in V
Bags(K, V, n) == UNION {[S -> V] : S \in {T \in SUBSET K : Cardinality(T) <= n}}
JsonBags == Bags(JsonKeys, JsonValues, MaxKeys)

\* The compilerOptions objects a tsconfig.json of the model may hold: every
\* combination of a target (valid or of the wrong kind), an outDir and an
\* unknown key
ConfigValues ==
    [k \in JsonKeys |->
        CASE k = "target" -> {Str(<<"es5">>), Bool("true")}
          [] k = "outDir" -> {Str(<<"lib">>)}
          [] k = "declaraton" -> {Bool("true")}
          [] OTHER -> {}]
ConfigBags ==
    UNION {{b \in [S -> UNION {ConfigValues[k] : k \in S}] : \A k \in S : b[k] \in ConfigValues[k]}
           : S \in SUBSET JsonKeys}

\* isCompilerOptionsValue + convertJsonOptionOfCustomType: is v acceptable for k
ValidFor(k, v) ==
    CASE k = "target" -> v.kind = "string" /\ v.val \in DOMAIN TargetMap
      [] k = "declaration" -> v.kind = "boolean"
      [] k = "outDir" -> v.kind = "string"
      [] OTHER -> FALSE

\* ts.convertJsonOption: the engine's value of option k for the JSON value v;
\* a value of the wrong kind converts to undefined (and reports an error)
ConvertJsonOption(k, v, basePath) ==
    IF ~ValidFor(k, v) THEN Undefined
    ELSE CASE k = "target" -> TargetMap[v.val]
           [] k = "outDir" -> Str(PathResolve(basePath, v.val))
           [] OTHER -> v

\* Diagnostic message chains of the option conversion
UnknownOptionError(k) == <<"Unknown compiler option", k>>
WrongValueError(k) == <<"Compiler option requires another value", k>>
NoInputsError == <<"No inputs were found in config file">>
CannotReadError == <<"Cannot read file">>
JsonSyntaxError == <<"Property assignment expected", "in JSON">>

RECURSIVE OptionErrorsFrom(_, _)
OptionErrorsFrom(json, i) ==
    IF i > Len(KeyOrder) THEN <<>>
    ELSE LET k == KeyOrder[i]
             here == IF k \notin DOMAIN json THEN <<>>
                     ELSE IF k \notin OptionNames THEN <<UnknownOptionError(k)>>
                     ELSE IF ~ValidFor(k, json[k]) THEN <<WrongValueError(k)>>
                     ELSE <<>>
         IN here \o OptionErrorsFrom(json, i + 1)

\* ts.convertCompilerOptionsFromJson(json, basePath): unknown keys are
\* left out of options and reported in errors
ConvertCompilerOptionsFromJson(json, basePath) ==
    [options |-> [k \in DOMAIN json \cap OptionNames |-> ConvertJsonOption(k, json[k], basePath)],
     errors |-> OptionErrorsFrom(json, 1)]

\* ------------------------------------------------------------------------
\* Diagnostics and their text
\* ------------------------------------------------------------------------
\* A diagnostic is its messageText chain: the sequence of its message parts,
\* each nested one level below the previous one.
PreDiagUniverse == {<<"TS2322">>, <<"TS2345", "TS2345 detail">>}
EmitDiagUniverse == {<<"TS5033">>}
\* diagnostic.file and diagnostic.start, which the engine keeps beside the
\* messageText: the diagnostics of the analysis point into a source file,
\* the one of the emission has no file
DiagnosticLocation(diagnostic) ==
    IF diagnostic \in PreDiagUniverse THEN <<"a.ts", "(1,7)">> ELSE <<>>

SeqsUpTo(S, n) == UNION {[1..m -> S] : m \in 0..n}
PreDiagSeqs == SeqsUpTo(PreDiagUniverse, MaxPreDiags)
EmitDiagSeqs == SeqsUpTo(EmitDiagUniverse, MaxEmitDiags)

RECURSIVE Spaces(_)
Spaces(n) == IF n = 0 THEN <<>> ELSE <<Indent>> \o Spaces(n - 1)

\* ts.flattenDiagnosticMessageText(chain, newLine): part i > 1 is preceded
\* by newLine and i - 1 indentations
RECURSIVE FlattenFrom(_, _, _)
FlattenFrom(chain, newLine, i) ==
    IF i > Len(chain) THEN <<>>
    ELSE (IF i > 1 THEN <<newLine>> \o Spaces(i - 1) ELSE <<>>)
         \o <<chain[i]>> \o FlattenFrom(chain, newLine, i + 1)

FlattenDiagnosticMessageText(chain, newLine) == FlattenFrom(chain, newLine, 1)

\* Array.prototype.join on an array of texts
RECURSIVE Join(_, _)
Join(texts, sep) ==
    IF Len(texts) = 0 THEN <<>>
    ELSE IF Len(texts) = 1 THEN texts[1]
    ELSE texts[1] \o <<sep>> \o Join(Tail(texts), sep)

\* diagnostics.map(d => ts.flattenDiagnosticMessageText(d.messageText, "\n"))
FlattenAll(diags) == [i \in 1..Len(diags) |-> FlattenDiagnosticMessageText(diags[i], NL)]

\* An aggregation that separates the entries by a double newline
DiagnosticMessages_DoubleNewline(diags) == Join(FlattenAll(diags), "\n\n")

\* The text of the Error thrown for a non-empty diagnostic list
DiagnosticMessages(diags) == Join(FlattenAll(diags), NL)

\* ------------------------------------------------------------------------
\* The configuration file and its loading
\* ------------------------------------------------------------------------
\* dir is base or lies below it
Under(dir, base) == Len(base) <= Len(dir) /\ SubSeq(dir, 1, Len(base)) = base

\* The files program.emit() writes when it reports no diagnostic: for each
\* root name one artifact, in the outDir of the program's options (the
\* engine resolves a relative outDir against the working directory) or,
\* without an outDir, next to its source
EmitOutputs(rootNames, opts, dir) ==
    {[source |-> rootNames[i],
      dir |-> IF "outDir" \in DOMAIN opts /\ opts["outDir"].kind = "string"
              THEN PathResolve(dir, opts["outDir"].val)
              ELSE PathDirname(rootNames[i])]
        : i \in DOMAIN rootNames}

FileLists == {<<>>, <<<<"a.ts">>, <<"b.ts">>>>}
\* A solution-style tsconfig.json: "files": [] and a "references" list
SolutionConfig == [status |-> "ok", compilerOptions |-> <<>>, files |-> <<>>, references |-> TRUE]
ConfigFiles ==
    {[status |-> s, compilerOptions |-> <<>>, files |-> <<>>, references |-> FALSE]
        : s \in {"missing", "unparseable"}}
    \cup [status : {"ok"}, compilerOptions : ConfigBags, files : FileLists, references : {FALSE}]
    \cup {SolutionConfig}

\* A read that takes a missing file for an empty configuration
ReadConfigFile_MissingIsEmpty(fileName, file) ==
    IF fileName = ConfigFilePath /\ file.status = "unparseable"
    THEN [ok |-> FALSE, error |-> JsonSyntaxError]
    ELSE [ok |-> TRUE, error |-> <<>>]

\* ts.readConfigFile(fileName, ts.sys.readFile) on a disk that holds file at
\* ConfigFilePath
ReadConfigFile(fileName, file) ==
    IF fileName # ConfigFilePath \/ file.status = "missing"
    THEN [ok |-> FALSE, error |-> CannotReadError]
    ELSE IF file.status = "unparseable"
    THEN [ok |-> FALSE, error |-> JsonSyntaxError]
    ELSE [ok |-> TRUE, error |-> <<>>]

\* A parse that takes an empty file list without a message
ParseJsonConfigFileContent_NoInputCheck(file, basePath) ==
    LET conv == ConvertCompilerOptionsFromJson(file.compilerOptions, basePath)
        names == [i \in 1..Len(file.files) |-> PathResolve(basePath, file.files[i])]
    IN [options |-> [k \in DOMAIN conv.options \cup {"configFilePath"} |->
                        IF k \in DOMAIN conv.options THEN conv.options[k] ELSE Undefined],
        fileNames |-> names,
        errors |-> conv.errors]

\* ts.parseJsonConfigFileContent(config, ts.sys, basePath): the options of
\* the file converted against basePath, plus the configFilePath entry the
\* engine always writes (undefined when no file name is passed), the file
\* names selected by the file resolved against basePath, and the errors;
\* an empty selection is an error unless the file declares references
ParseJsonConfigFileContent(file, basePath) ==
    LET conv == ConvertCompilerOptionsFromJson(file.compilerOptions, basePath)
        names == [i \in 1..Len(file.files) |-> PathResolve(basePath, file.files[i])]
    IN [options |-> [k \in DOMAIN conv.options \cup {"configFilePath"} |->
                        IF k \in DOMAIN conv.options THEN conv.options[k] ELSE Undefined],
        fileNames |-> names,
        errors |-> conv.errors
                   \o (IF Len(names) = 0 /\ ~file.references THEN <<NoInputsError>> ELSE <<>>)]

NoConfig == [options |-> <<>>, fileNames |-> <<>>, errors |-> <<>>]

\* A loader that checks the read error only and returns the parsed
\* configuration whatever its errors
LoadAndParseTsConfig_IgnoringErrors(tsconfigPath, file) ==
    LET configFile == ReadConfigFile(tsconfigPath, file)
        parsed == ParseJsonConfigFileContent(file, PathDirname(tsconfigPath))
    IN IF ~configFile.ok
       THEN [thrown |-> TRUE,
             message |-> <<ReadPrefix>> \o FlattenDiagnosticMessageText(configFile.error, NL),
             config |-> NoConfig]
       ELSE [thrown |-> FALSE, message |-> <<>>, config |-> parsed]

\* A loader that reports the first message of the validation only
LoadAndParseTsConfig_FirstErrorOnly(tsconfigPath, file) ==
    LET configFile == ReadConfigFile(tsconfigPath, file)
        parsed == ParseJsonConfigFileContent(file, PathDirname(tsconfigPath))
    IN IF ~configFile.ok
       THEN [thrown |-> TRUE,
             message |-> <<ReadPrefix>> \o FlattenDiagnosticMessageText(configFile.error, NL),
             config |-> NoConfig]
       ELSE IF Len(parsed.errors) > 0
       THEN [thrown |-> TRUE,
             message |-> <<ParsePrefix>> \o FlattenDiagnosticMessageText(parsed.errors[1], NL),
             config |-> NoConfig]
       ELSE [thrown |-> FALSE, message |-> <<>>, config |-> parsed]

\* loadAndParseTsConfig(tsconfigPath): the parsed configuration, or the
\* message of the Error it throws
LoadAndParseTsConfig(tsconfigPath, file) ==
    LET configFile == ReadConfigFile(tsconfigPath, file)
        parsed == ParseJsonConfigFileContent(file, PathDirname(tsconfigPath))
    IN IF ~configFile.ok
       THEN [thrown |-> TRUE,
             message |-> <<ReadPrefix>> \o FlattenDiagnosticMessageText(configFile.error, NL),
             config |-> NoConfig]
       ELSE IF Len(parsed.errors) > 0
       THEN [thrown |-> TRUE,
             message |-> <<ParsePrefix>> \o Join(FlattenAll(parsed.errors), NL),
             config |-> NoConfig]
       ELSE [thrown |-> FALSE, message |-> <<>>, config |-> parsed]

\* ------------------------------------------------------------------------
\* Option merge
\* ------------------------------------------------------------------------
\* A merge that keeps the overrides alone
SpreadOptions_MergedOnly(base, merged) == merged

\* { ...base, ...merged }
SpreadOptions(base, merged) ==
    [k \in DOMAIN base \cup DOMAIN merged |-> IF k \in DOMAIN merged THEN merged[k] ELSE base[k]]

\* JavaScript truthiness of a string
Truthy(s) == Len(s) > 0

\* if (outputDir) { finalCompilerOptions.outDir = outputDir; }
SetOutputDir(final, outputDir) ==
    IF outputDir.given /\ Truthy(outputDir.v)
    THEN [k \in DOMAIN final \cup {"outDir"} |-> IF k = "outDir" THEN Str(outputDir.v) ELSE final[k]]
    ELSE final

\* The option set handed to ts.createProgram
FinalCompilerOptions(parsedOptions, compilerOptions, outputDir, basePath) ==
    SetOutputDir(
        SpreadOptions(parsedOptions, ConvertCompilerOptionsFromJson(compilerOptions, basePath).options),
        outputDir)

\* Root names that add the files of the configuration to those supplied
RootNames_Appending(filePaths, fileNames) ==
    IF filePaths.given THEN filePaths.v \o fileNames ELSE fileNames

\* filePaths ?? parsedConfig.fileNames
RootNames(filePaths, fileNames) == IF filePaths.given THEN filePaths.v ELSE fileNames

\* ------------------------------------------------------------------------
\* State
\* ------------------------------------------------------------------------
VARIABLES
    cwd,                  \* working directory of the process
    configFile,           \* what the disk holds at ConfigFilePath
    descriptions,         \* what the calls of describe() returned, in order
    logSink,              \* how the log sink of the host behaves
    other,                \* the locals of the other invocation of the process:
                          \* one that has returned, or one that is suspended
    pc,                   \* position of execute()
    options,              \* the argument of execute()
    resolvedTsconfigPath,
    parsedConfig,
    finalCompilerOptions,
    program,              \* the ts.Program created, if any
    emitResult,
    preEmitDiagnostics,   \* what ts.getPreEmitDiagnostics returned
    allDiagnostics,
    error,                \* message of the Error thrown inside the try block
    rejection,            \* message of the Error execute() rejects with
    log,                  \* events received by logInfo / logError
    engineCalls           \* calls made to the compiler engine, in order

vars == <<cwd, configFile, descriptions, logSink, other, pc, options, resolvedTsconfigPath, parsedConfig,
          finalCompilerOptions, program, emitResult, preEmitDiagnostics,
          allDiagnostics, error, rejection, log, engineCalls>>

Absent == [given |-> FALSE, v |-> <<>>]
Given(x) == [given |-> TRUE, v |-> x]

TsconfigPathChoices == {Absent, Given(ConfigFilePath)}
FilePathsChoices == {Absent, Given(<<>>), Given(<<ProjectDir \o <<"b.ts">>>>)}
OutputDirChoices == {Absent, Given(<<>>), Given(<<"out">>)}
CompilerOptionsChoices == {Absent} \cup {Given(b) : b \in JsonBags}

Requests ==
    [tsconfigPath : TsconfigPathChoices, filePaths : FilePathsChoices,
     outputDir : OutputDirChoices, compilerOptions : CompilerOptionsChoices]

\* A sample of the requests: every combination of the fields, with no
\* override, a known one or an unknown one
TargetOverride(name) == [k \in {"target"} |-> Str(name)]
UnknownOverride == [k \in {"declaraton"} |-> Bool("true")]
SampleRequests ==
    [tsconfigPath : TsconfigPathChoices, filePaths : FilePathsChoices, outputDir : OutputDirChoices,
     compilerOptions : {Absent, Given(TargetOverride(<<"es5">>)), Given(UnknownOverride)}]

NoRequest ==
    [tsconfigPath |-> Absent, filePaths |-> Absent, outputDir |-> Absent, compilerOptions |-> Absent]
NoProgram == [created |-> FALSE, rootNames |-> <<>>, options |-> <<>>]

\* Destructuring defaults of execute()
TsconfigPathOf(o) == IF o.tsconfigPath.given THEN o.tsconfigPath.v ELSE DefaultTsconfigPath
CompilerOptionsOf(o) == IF o.compilerOptions.given THEN o.compilerOptions.v ELSE <<>>

Info(text) == [level |-> "info", text |-> text]
Error(text) == [level |-> "error", text |-> text]

\* A start event that leaves the path out
StartEvent_NoPath(path) == Info(<<CompilingText>>)

\* this.logInfo(`Compiling TypeScript using configuration: ${resolvedTsconfigPath}`)
StartEvent(path) == Info(<<CompilingText>> \o path)
\* this.logInfo("TypeScript compilation completed successfully.")
SuccessEvent == Info(<<SuccessText>>)
\* this.logError("Error during TypeScript compilation:", error)
CatchEvent(caught) == Error(<<CatchText>> \o caught)

\* The locals of an invocation that has not been entered
IdleLocals ==
    [pc |-> "idle", options |-> NoRequest, resolvedTsconfigPath |-> <<>>, parsedConfig |-> NoConfig,
     finalCompilerOptions |-> <<>>, program |-> NoProgram, emitResult |-> <<>>,
     preEmitDiagnostics |-> <<>>, allDiagnostics |-> <<>>, error |-> <<>>, rejection |-> <<>>,
     log |-> <<>>, engineCalls |-> <<>>]

\* The locals of the invocation at hand, with the events it logged and the
\* engine calls it made
Locals ==
    [pc |-> pc, options |-> options, resolvedTsconfigPath |-> resolvedTsconfigPath,
     parsedConfig |-> parsedConfig, finalCompilerOptions |-> finalCompilerOptions,
     program |-> program, emitResult |-> emitResult, preEmitDiagnostics |-> preEmitDiagnostics,
     allDiagnostics |-> allDiagnostics, error |-> error, rejection |-> rejection, log |-> log,
     engineCalls |-> engineCalls]

\* A log sink works, or its logInfo throws, or its logError throws
LogSinks == {"ok", "infoFails", "errorFails"}
\* The message of the Error a failing sink throws
SinkError == <<"log sink failed">>

\* One invocation, not entered yet, in a process whose sinks are of kinds
InitWith(kinds) ==
    /\ cwd \in {ProjectDir, OtherDir}
    /\ configFile \in ConfigFiles
    /\ descriptions = <<>>
    /\ logSink \in kinds
    /\ other = IdleLocals
    /\ pc = "idle"
    /\ options = NoRequest
    /\ resolvedTsconfigPath = <<>>
    /\ parsedConfig = NoConfig
    /\ finalCompilerOptions = <<>>
    /\ program = NoProgram
    /\ emitResult = <<>>
    /\ preEmitDiagnostics = <<>>
    /\ allDiagnostics = <<>>
    /\ error = <<>>
    /\ rejection = <<>>
    /\ log = <<>>
    /\ engineCalls = <<>>

Init == InitWith({"ok"})

\* ------------------------------------------------------------------------
\* execute(), step by step
\* ------------------------------------------------------------------------
\* Entry: destructure the options, resolve the path, log the first event;
\* the logInfo call stands before the try block, so a throw of the sink is
\* the rejection of execute
Execute(o) ==
    /\ pc = "idle"
    /\ options' = o
    /\ resolvedTsconfigPath' = PathResolve(cwd, TsconfigPathOf(o))
    /\ IF logSink = "infoFails"
       THEN /\ rejection' = SinkError
            /\ pc' = "rejected"
            /\ UNCHANGED log
       ELSE /\ log' = Append(log, StartEvent(PathResolve(cwd, TsconfigPathOf(o))))
            /\ pc' = "load"
            /\ UNCHANGED rejection
    /\ UNCHANGED <<cwd, configFile, descriptions, logSink, other,
                   parsedConfig, finalCompilerOptions, program, emitResult,
                   preEmitDiagnostics, allDiagnostics, error, engineCalls>>

\* A load whose throw does not keep the merge from starting
LoadConfig_ContinueOnError ==
    /\ pc = "load"
    /\ LET r == LoadAndParseTsConfig(resolvedTsconfigPath, configFile)
           read == ReadConfigFile(resolvedTsconfigPath, configFile)
       IN /\ engineCalls' = engineCalls \o <<"readConfigFile">>
                \o (IF read.ok THEN <<"parseJsonConfigFileContent">> ELSE <<>>)
          /\ error' = r.message
          /\ parsedConfig' = r.config
          /\ pc' = "merge"
    /\ UNCHANGED <<cwd, configFile, descriptions, logSink, other,
                   options, resolvedTsconfigPath, finalCompilerOptions, program,
                   emitResult, preEmitDiagnostics, allDiagnostics, rejection, log>>

\* const parsedConfig = this.loadAndParseTsConfig(resolvedTsconfigPath)
LoadConfig ==
    /\ pc = "load"
    /\ LET r == LoadAndParseTsConfig(resolvedTsconfigPath, configFile)
           read == ReadConfigFile(resolvedTsconfigPath, configFile)
       IN /\ engineCalls' = engineCalls \o <<"readConfigFile">>
                \o (IF read.ok THEN <<"parseJsonConfigFileContent">> ELSE <<>>)
          /\ IF r.thrown
             THEN /\ error' = r.message
                  /\ pc' = "catch"
                  /\ UNCHANGED parsedConfig
             ELSE /\ parsedConfig' = r.config
                  /\ pc' = "merge"
                  /\ UNCHANGED error
    /\ UNCHANGED <<cwd, configFile, descriptions, logSink, other,
                   options, resolvedTsconfigPath, finalCompilerOptions, program,
                   emitResult, preEmitDiagnostics, allDiagnostics, rejection, log>>

\* A merge that converts the overrides against the working directory
MergeOptions_CwdBase ==
    /\ pc = "merge"
    /\ finalCompilerOptions' =
           FinalCompilerOptions(parsedConfig.options, CompilerOptionsOf(options),
                                options.outputDir, cwd)
    /\ engineCalls' = Append(engineCalls, "convertCompilerOptionsFromJson")
    /\ pc' = "createProgram"
    /\ UNCHANGED <<cwd, configFile, descriptions, logSink, other,
                   options, resolvedTsconfigPath, parsedConfig, program, emitResult,
                   preEmitDiagnostics, allDiagnostics, error, rejection, log>>

\* A merge that keeps the option set in a field of the action, which the
\* two invocations share
MergeOptions_SharedField ==
    /\ pc = "merge"
    /\ finalCompilerOptions' =
           FinalCompilerOptions(parsedConfig.options, CompilerOptionsOf(options),
                                options.outputDir, PathDirname(resolvedTsconfigPath))
    /\ other' = [other EXCEPT !.finalCompilerOptions = finalCompilerOptions']
    /\ engineCalls' = Append(engineCalls, "convertCompilerOptionsFromJson")
    /\ pc' = "createProgram"
    /\ UNCHANGED <<cwd, configFile, descriptions, logSink,
                   options, resolvedTsconfigPath, parsedConfig, program, emitResult,
                   preEmitDiagnostics, allDiagnostics, error, rejection, log>>

\* convertCompilerOptionsFromJson, the spread and the outputDir assignment
MergeOptions ==
    /\ pc = "merge"
    /\ finalCompilerOptions' =
           FinalCompilerOptions(parsedConfig.options, CompilerOptionsOf(options),
                                options.outputDir, PathDirname(resolvedTsconfigPath))
    /\ engineCalls' = Append(engineCalls, "convertCompilerOptionsFromJson")
    /\ pc' = "createProgram"
    /\ UNCHANGED <<cwd, configFile, descriptions, logSink, other,
                   options, resolvedTsconfigPath, parsedConfig, program, emitResult,
                   preEmitDiagnostics, allDiagnostics, error, rejection, log>>

\* A compilation that takes the program of the earlier invocation when
\* there is one
CreateProgram_Reusing ==
    /\ pc = "createProgram"
    /\ IF other.program.created
       THEN /\ program' = other.program
            /\ UNCHANGED engineCalls
       ELSE /\ program' = [created |-> TRUE,
                           rootNames |-> RootNames(options.filePaths, parsedConfig.fileNames),
                           options |-> finalCompilerOptions]
            /\ engineCalls' = Append(engineCalls, "createProgram")
    /\ pc' = "emit"
    /\ UNCHANGED <<cwd, configFile, descriptions, logSink, other,
                   options, resolvedTsconfigPath, parsedConfig, finalCompilerOptions,
                   emitResult, preEmitDiagnostics, allDiagnostics, error, rejection, log>>

\* const program = ts.createProgram(filePaths ?? parsedConfig.fileNames, finalCompilerOptions)
CreateProgram ==
    /\ pc = "createProgram"
    /\ program' = [created |-> TRUE,
                   rootNames |-> RootNames(options.filePaths, parsedConfig.fileNames),
                   options |-> finalCompilerOptions]
    /\ engineCalls' = Append(engineCalls, "createProgram")
    /\ pc' = "emit"
    /\ UNCHANGED <<cwd, configFile, descriptions, logSink, other,
                   options, resolvedTsconfigPath, parsedConfig, finalCompilerOptions,
                   emitResult, preEmitDiagnostics, allDiagnostics, error, rejection, log>>

\* What the engine reports for the program at hand: for a program it has
\* compiled before, from the same root names with the same options on an
\* unchanged disk, what it reported then; otherwise anything
SameProgramBefore == other.program.created /\ other.program = program
EmitResults ==
    IF SameProgramBefore /\ other.pc \notin {"idle", "load", "merge", "createProgram", "emit"}
    THEN {other.emitResult} ELSE EmitDiagSeqs
PreEmitResults ==
    IF SameProgramBefore /\ other.pc \in {"catch", "resolved", "rejected"}
    THEN {other.preEmitDiagnostics} ELSE PreDiagSeqs

\* A compilation that leaves the emission out
Emit_Skipped ==
    /\ pc = "emit"
    /\ emitResult' = <<>>
    /\ pc' = "collect"
    /\ UNCHANGED <<cwd, configFile, descriptions, logSink, other,
                   options, resolvedTsconfigPath, parsedConfig, finalCompilerOptions,
                   program, preEmitDiagnostics, allDiagnostics, error, rejection, log,
                   engineCalls>>

\* const emitResult = program.emit(); the engine decides the diagnostics
Emit ==
    /\ pc = "emit"
    /\ \E d \in EmitResults : emitResult' = d
    /\ engineCalls' = Append(engineCalls, "emit")
    /\ pc' = "collect"
    /\ UNCHANGED <<cwd, configFile, descriptions, logSink, other,
                   options, resolvedTsconfigPath, parsedConfig, finalCompilerOptions,
                   program, preEmitDiagnostics, allDiagnostics, error, rejection, log>>

\* The text of the error event of one diagnostic
DiagnosticLogText(diagnostic) == <<ErrorLogPrefix>> \o FlattenDiagnosticMessageText(diagnostic, NL)

\* A loop that stops one diagnostic short
DiagnosticLogEvents_SkipLast(diags) ==
    [i \in 1..(Len(diags) - 1) |-> Error(DiagnosticLogText(diags[i]))]

\* A loop that runs over the diagnostics from the last to the first
DiagnosticLogEvents_Reversed(diags) ==
    [i \in 1..Len(diags) |-> Error(DiagnosticLogText(diags[Len(diags) + 1 - i]))]

\* allDiagnostics.forEach(d => this.logError(`TypeScript Error: ${...}`))
DiagnosticLogEvents(diags) == [i \in 1..Len(diags) |-> Error(DiagnosticLogText(diags[i]))]

\* The message of the Error thrown after the forEach
ThrownMessage(diags) == <<Prefix>> \o DiagnosticMessages(diags)

\* A concatenation in the order the engine is called: emission first
AllDiagnostics_EmitFirst(pre, emitted) == emitted \o pre

\* A list kept in the action between the calls, to which every call adds
AllDiagnostics_Accumulating(pre, emitted) == other.allDiagnostics \o pre \o emitted

\* ts.getPreEmitDiagnostics(program).concat(emitResult.diagnostics)
AllDiagnostics(pre, emitted) == pre \o emitted

\* A test that takes the empty list for a failure
HasDiagnostics_Always(all) == Len(all) >= 0

\* if (allDiagnostics.length > 0)
HasDiagnostics(all) == Len(all) > 0

\* Collect the diagnostics; when there are some, log one error event per
\* diagnostic and throw the aggregated Error; otherwise log the success
\* event and resolve; a throw of the sink is caught like any other
CollectDiagnostics ==
    /\ pc = "collect"
    /\ \E d \in PreEmitResults :
          LET all == AllDiagnostics(d, emitResult)
          IN /\ preEmitDiagnostics' = d
             /\ allDiagnostics' = all
             /\ IF HasDiagnostics(all)
                THEN /\ pc' = "catch"
                     /\ IF logSink = "errorFails"
                        THEN /\ error' = SinkError
                             /\ UNCHANGED log
                        ELSE /\ log' = log \o DiagnosticLogEvents(all)
                             /\ error' = ThrownMessage(all)
                ELSE IF logSink = "infoFails"
                THEN /\ error' = SinkError
                     /\ pc' = "catch"
                     /\ UNCHANGED log
                ELSE /\ log' = Append(log, SuccessEvent)
                     /\ pc' = "resolved"
                     /\ UNCHANGED error
    /\ engineCalls' = Append(engineCalls, "getPreEmitDiagnostics")
    /\ UNCHANGED <<cwd, configFile, descriptions, logSink, other,
                   options, resolvedTsconfigPath, parsedConfig, finalCompilerOptions,
                   program, emitResult, rejection>>

\* The message of the Error the catch block throws for a caught message
RejectionMessage(caught) == <<Prefix>> \o caught

\* A catch block that logs the error and does not throw again
Catch_Swallow ==
    /\ pc = "catch"
    /\ log' = Append(log, CatchEvent(error))
    /\ pc' = "resolved"
    /\ UNCHANGED <<cwd, configFile, descriptions, logSink, other,
                   options, resolvedTsconfigPath, parsedConfig, finalCompilerOptions,
                   program, emitResult, preEmitDiagnostics, allDiagnostics, error, rejection,
                   engineCalls>>

\* catch (error): logError("Error during TypeScript compilation:", error);
\* throw new Error(`TypeScript compilation failed: ${error.message}`); a
\* throw of the sink leaves the catch block in place of that Error
Catch ==
    /\ pc = "catch"
    /\ IF logSink = "errorFails"
       THEN /\ rejection' = SinkError
            /\ UNCHANGED log
       ELSE /\ log' = Append(log, CatchEvent(error))
            /\ rejection' = RejectionMessage(error)
    /\ pc' = "rejected"
    /\ UNCHANGED <<cwd, configFile, descriptions, logSink, other,
                   options, resolvedTsconfigPath, parsedConfig, finalCompilerOptions,
                   program, emitResult, preEmitDiagnostics, allDiagnostics, error,
                   engineCalls>>

Next ==
    \/ \E o \in Requests : Execute(o)
    \/ LoadConfig
    \/ MergeOptions
    \/ CreateProgram
    \/ Emit
    \/ CollectDiagnostics
    \/ Catch

Spec == Init /\ [][Next]_vars

TypeOK ==
    /\ pc \in {"idle", "load", "merge", "createProgram", "emit", "collect",
               "catch", "resolved", "rejected"}
    /\ options \in Requests \cup {NoRequest}
    /\ Len(allDiagnostics) <= MaxPreDiags + MaxEmitDiags

\* ------------------------------------------------------------------------
\* Vocabulary of the properties
\* ------------------------------------------------------------------------
Terminal == pc \in {"resolved", "rejected"}
Called(name) == \E i \in DOMAIN engineCalls : engineCalls[i] = name
CallCount(name) == Cardinality({i \in DOMAIN engineCalls : engineCalls[i] = name})
Overrides == CompilerOptionsOf(options)
BasePath == PathDirname(resolvedTsconfigPath)
EventCount(level) == Cardinality({i \in DOMAIN log : log[i].level = level})

\* The configuration at the resolved path cannot be loaded: the file cannot
\* be read or parsed, or its content fails validation
LoadFails ==
    \/ ~ReadConfigFile(resolvedTsconfigPath, configFile).ok
    \/ Len(ParseJsonConfigFileContent(configFile, BasePath).errors) > 0

\* text occurs in message at position p
OccursAt(message, text, p) ==
    /\ p >= 1
    /\ p + Len(text) - 1 <= Len(message)
    /\ SubSeq(message, p, p + Len(text) - 1) = text

TokenCount(message, token) == Cardinality({i \in DOMAIN message : message[i] = token})

\* message without its first n tokens
Drop(message, n) == SubSeq(message, n + 1, Len(message))

\* ------------------------------------------------------------------------
\* C1
\* ------------------------------------------------------------------------
\* k is in the effective option set with the value the override gives it
HasOverrideValue(k) ==
    /\ k \in DOMAIN program.options
    /\ ValidFor(k, Overrides[k])
    /\ program.options[k] = ConvertJsonOption(k, Overrides[k], BasePath)

\* C1 (as stated): in every compilation, for every key k of compilerOptions
\* the option set given to the program has at k the value compilerOptions
\* gives, never the value of the configuration file.
C1_OverrideWinsForEveryKey ==
    program.created => \A k \in DOMAIN Overrides : HasOverrideValue(k)

\* ------------------------------------------------------------------------
\* C2
\* ------------------------------------------------------------------------
\* C2 (as stated): in every compilation of an invocation that supplies
\* outputDir, whatever string it is, the outDir of the option set given to
\* the program is that outputDir.
C2_OutputDirDominates ==
    (program.created /\ options.outputDir.given) =>
        /\ "outDir" \in DOMAIN program.options
        /\ program.options["outDir"] = Str(options.outputDir.v)

\* ------------------------------------------------------------------------
\* C3
\* ------------------------------------------------------------------------
HasUnknownOverride == \E k \in DOMAIN Overrides : k \notin OptionNames

\* C3 (as stated): when compilerOptions holds a key the option grammar does
\* not know, no program is created, nothing is emitted, no diagnostics are
\* gathered, and execute ends rejected with a message naming that key.
C3_UnknownOverrideRejected ==
    (pc # "idle" /\ ~LoadFails /\ HasUnknownOverride) =>
        /\ ~Called("createProgram")
        /\ ~Called("emit")
        /\ ~Called("getPreEmitDiagnostics")
        /\ pc # "resolved"
        /\ pc = "rejected" =>
              \E k \in DOMAIN Overrides : k \notin OptionNames /\ TokenCount(rejection, k) > 0

\* ------------------------------------------------------------------------
\* C4
\* ------------------------------------------------------------------------
\* The stage error of a failing load: the text of the Error thrown by
\* loadAndParseTsConfig
StageError == LoadAndParseTsConfig(resolvedTsconfigPath, configFile).message

\* C4: when the configuration cannot be loaded, the engine is never asked to
\* create a program, to emit or to gather diagnostics, execute does not
\* resolve, and its rejection message ends with the text of the load error.
C4_LoadFailureShortCircuits ==
    (pc # "idle" /\ LoadFails) =>
        /\ ~Called("createProgram")
        /\ ~Called("emit")
        /\ ~Called("getPreEmitDiagnostics")
        /\ ~program.created
        /\ pc \in {"load", "catch", "rejected"}
        /\ pc = "rejected" =>
              /\ Len(rejection) > Len(StageError)
              /\ Drop(rejection, Len(rejection) - Len(StageError)) = StageError
              /\ rejection[1] = Prefix
              /\ StageError[1] \in {ReadPrefix, ParsePrefix}

\* A configuration that is read but fails validation with two messages has
\* ended in a rejection
C4_Witness ==
    /\ pc = "rejected"
    /\ LoadFails
    /\ ReadConfigFile(resolvedTsconfigPath, configFile).ok
    /\ Len(ParseJsonConfigFileContent(configFile, BasePath).errors) > 1

\* ------------------------------------------------------------------------
\* C5
\* ------------------------------------------------------------------------
\* What the engine reported, in the order of the claim: the diagnostics of
\* the analysis, then those of the emission
Reported == preEmitDiagnostics \o emitResult
ReportedTexts == [i \in 1..Len(Reported) |-> FlattenDiagnosticMessageText(Reported[i], NL)]
DiagnosticsFound == Called("getPreEmitDiagnostics") /\ Len(Reported) > 0

Least(S) == CHOOSE p \in S : \A q \in S : p <= q

\* The texts occur in message one after the other, without overlap, from
\* position from on
RECURSIVE ContainsInOrder(_, _, _)
ContainsInOrder(message, texts, from) ==
    IF Len(texts) = 0 THEN TRUE
    ELSE LET places == {p \in from..Len(message) : OccursAt(message, texts[1], p)}
         IN /\ places # {}
            /\ ContainsInOrder(message, Tail(texts), Least(places) + Len(texts[1]))

\* C5: when analysis or emission yields a diagnostic, execute does not
\* resolve, and the message it rejects with contains the flattened text of
\* every diagnostic, those of the analysis before those of the emission,
\* each group in the order of the engine, as many times as reported.
C5_EveryDiagnosticInOrder ==
    DiagnosticsFound =>
        /\ pc \in {"catch", "rejected"}
        /\ pc = "rejected" => ContainsInOrder(rejection, ReportedTexts, 1)

\* A rejection after two diagnostics of the analysis, the second a chain of
\* two parts, and one of the emission
C5_Witness ==
    /\ pc = "rejected"
    /\ Len(preEmitDiagnostics) = 2
    /\ preEmitDiagnostics[1] # preEmitDiagnostics[2]
    /\ Len(preEmitDiagnostics[2]) = 2
    /\ Len(emitResult) = 1

\* ------------------------------------------------------------------------
\* C6
\* ------------------------------------------------------------------------
\* The configuration loaded and no diagnostic has been reported so far
CleanSoFar ==
    /\ pc \notin {"idle", "load"}
    /\ ~LoadFails
    /\ Len(Reported) = 0

\* C6: an invocation whose configuration loads and whose analysis and
\* emission yield no diagnostic raises no failure, and it ends resolved.
C6_NoDiagnosticsResolves ==
    CleanSoFar =>
        /\ pc \notin {"catch", "rejected"}
        /\ error = <<>>
        /\ rejection = <<>>
        /\ Called("getPreEmitDiagnostics") => pc = "resolved"

\* An invocation with a program, an emission and no diagnostics has resolved
C6_Witness ==
    /\ pc = "resolved"
    /\ Called("emit")
    /\ Len(Reported) = 0

\* ------------------------------------------------------------------------
\* C7
\* ------------------------------------------------------------------------
\* The first tokens a stage error or an aggregated diagnostic text starts with
StageOrDiagnosticStarts ==
    {ReadPrefix, ParsePrefix} \cup {ReportedTexts[i][1] : i \in 1..Len(Reported)}

\* C7 (as stated): the message of every rejection starts with the prefix
\* "TypeScript compilation failed: ", holds it exactly once, and continues
\* directly with the stage error or the aggregated diagnostic text.
C7_PrefixExactlyOnce ==
    pc = "rejected" =>
        /\ rejection[1] = Prefix
        /\ TokenCount(rejection, Prefix) = 1
        /\ rejection[2] \in StageOrDiagnosticStarts

\* ------------------------------------------------------------------------
\* C8
\* ------------------------------------------------------------------------
\* texts one after the other with sep between consecutive ones
RECURSIVE Concat(_, _)
Concat(texts, sep) ==
    IF Len(texts) = 0 THEN <<>>
    ELSE texts[1] \o (IF Len(texts) > 1 THEN sep ELSE <<>>) \o Concat(Tail(texts), sep)

\* message ends with text and holds nothing but prefixes before it
EndsWithAfterPrefixes(message, text) ==
    /\ Len(message) > Len(text)
    /\ Drop(message, Len(message) - Len(text)) = text
    /\ \A i \in 1..(Len(message) - Len(text)) : message[i] = Prefix

\* C8 (as stated): the message of a rejection caused by diagnostics reports
\* the entries with a double newline between consecutive entries.
C8_DoubleNewlineBetweenEntries ==
    (pc = "rejected" /\ DiagnosticsFound) =>
        EndsWithAfterPrefixes(rejection, Concat(ReportedTexts, <<NL, NL>>))

\* C8 (amended): the message of a rejection caused by diagnostics reports
\* every entry, with a single newline between consecutive entries, the same
\* separator that joins the parts inside one entry.
C8_SingleNewlineBetweenEntries ==
    (pc = "rejected" /\ DiagnosticsFound) =>
        EndsWithAfterPrefixes(rejection, Concat(ReportedTexts, <<NL>>))

\* A rejection after at least two entries, one of them a chain of two parts
C8_Witness ==
    /\ pc = "rejected"
    /\ DiagnosticsFound
    /\ Len(Reported) >= 2
    /\ \E i \in 1..Len(Reported) : Len(Reported[i]) = 2

\* ------------------------------------------------------------------------
\* C9
\* ------------------------------------------------------------------------
ErrorEvents == SelectSeq(log, LAMBDA e : e.level = "error")

\* C9 (as stated): an invocation that fails because of n diagnostics has
\* emitted exactly n error-level log events.
C9_ErrorEventsEqualDiagnostics ==
    (pc = "rejected" /\ DiagnosticsFound) => Len(ErrorEvents) = Len(Reported)

\* C9 (amended): when the aggregated failure of n diagnostics is raised, the
\* error-level events emitted are exactly one per diagnostic entry, in the
\* order of the entries, each with the text of its entry; the catch block
\* then emits one further error-level event before execute rejects, so a
\* rejected invocation has emitted n + 1 error-level events.
C9_ErrorEventPerDiagnosticPlusCatch ==
    DiagnosticsFound =>
        LET n == Len(Reported)
        IN /\ Len(ErrorEvents) = IF pc = "rejected" THEN n + 1 ELSE n
           /\ \A i \in 1..n : ErrorEvents[i].text = <<ErrorLogPrefix>> \o ReportedTexts[i]
           /\ pc = "catch" => rejection = <<>>
           /\ pc = "rejected" => ErrorEvents[n + 1].text[1] = CatchText

\* A rejection after three diagnostics
C9_Witness ==
    /\ pc = "rejected"
    /\ DiagnosticsFound
    /\ Len(Reported) = 3

\* ------------------------------------------------------------------------
\* C10
\* ------------------------------------------------------------------------
InfoEvents == SelectSeq(log, LAMBDA e : e.level = "info")

\* C10: from the entry of execute on, the first log event is informational
\* and names the resolved configuration path, and it is there before the
\* engine is called at all; it is the only informational event unless the
\* invocation has resolved, when the success event is the second and last.
C10_InformationalEvents ==
    pc # "idle" =>
        /\ Len(log) >= 1
        /\ log[1].level = "info"
        /\ log[1].text = <<CompilingText>> \o PathResolve(cwd, TsconfigPathOf(options))
        /\ Len(engineCalls) = 0 => log = <<log[1]>>
        /\ Len(InfoEvents) = IF pc = "resolved" THEN 2 ELSE 1
        /\ pc = "resolved" => log[Len(log)] = Info(<<SuccessText>>)

\* A resolved invocation with its two informational events
C10_Witness ==
    /\ pc = "resolved"
    /\ Len(InfoEvents) = 2
    /\ Len(log) = 2

\* ------------------------------------------------------------------------
\* C11
\* ------------------------------------------------------------------------
\* The resolved path names no file on the disk
MissingConfig == resolvedTsconfigPath # ConfigFilePath \/ configFile.status = "missing"

\* The log holds an informational event that starts with the compiling text
HasCompilingEvent ==
    \E i \in DOMAIN log : log[i].level = "info" /\ log[i].text[1] = CompilingText

\* C11 (as stated): when the configuration path names no file, execute
\* rejects with the error of the read, and the log of the invocation holds
\* no informational event about compiling.
C11_NoCompilingEvent ==
    (pc = "rejected" /\ MissingConfig) =>
        /\ rejection = <<Prefix, ReadPrefix>> \o FlattenDiagnosticMessageText(CannotReadError, NL)
        /\ ~HasCompilingEvent

\* C11 (amended): when the configuration path names no file, execute
\* rejects with the error of the read and the engine is asked for nothing
\* but that read; the log holds the start event, logged before the read, as
\* its only informational event, followed by the error event of the catch.
C11_MissingConfigRejects ==
    (pc # "idle" /\ MissingConfig) =>
        /\ pc \in {"load", "catch", "rejected"}
        /\ engineCalls \in {<<>>, <<"readConfigFile">>}
        /\ InfoEvents = <<StartEvent(resolvedTsconfigPath)>>
        /\ pc = "rejected" =>
              /\ rejection = <<Prefix, ReadPrefix>> \o FlattenDiagnosticMessageText(CannotReadError, NL)
              /\ engineCalls = <<"readConfigFile">>
              /\ log = <<StartEvent(resolvedTsconfigPath),
                         CatchEvent(<<ReadPrefix>> \o FlattenDiagnosticMessageText(CannotReadError, NL))>>

\* An invocation that named the path of a file the disk does not hold has
\* ended in a rejection
C11_Witness ==
    /\ pc = "rejected"
    /\ options.tsconfigPath.given
    /\ configFile.status = "missing"
    /\ HasCompilingEvent

\* ------------------------------------------------------------------------
\* C12
\* ------------------------------------------------------------------------
\* The file list of the configuration file, as the engine selects it
ConfigFileNames == ParseJsonConfigFileContent(configFile, BasePath).fileNames

\* C12: the root names of every program created are the caller's filePaths,
\* entry for entry, whenever filePaths is supplied (an empty list and a list
\* that overlaps the configuration's included), and are the file list of
\* the configuration when filePaths is not supplied.
C12_FileListReplacement ==
    program.created =>
        program.rootNames = IF options.filePaths.given THEN options.filePaths.v ELSE ConfigFileNames

\* A program created from a supplied list of one file that the
\* configuration selects as well, among others
C12_Witness ==
    /\ program.created
    /\ options.filePaths.given
    /\ Len(options.filePaths.v) = 1
    /\ Len(ConfigFileNames) = 2
    /\ \E i \in DOMAIN ConfigFileNames : ConfigFileNames[i] = options.filePaths.v[1]

\* ------------------------------------------------------------------------
\* C13
\* ------------------------------------------------------------------------
\* C13: when compilerOptions is empty or absent and outputDir is absent,
\* the option set of the program is the option set loaded from the
\* configuration file: it holds the keys of the file's compilerOptions, each
\* with the engine's value of what the file gives it, and besides them only
\* the configFilePath entry of the loader, as the loader left it.
C13_EmptyMergeIdentity ==
    (program.created /\ Overrides = <<>> /\ ~options.outputDir.given) =>
        /\ program.options = parsedConfig.options
        /\ program.options = ParseJsonConfigFileContent(configFile, PathDirname(ConfigFilePath)).options
        /\ DOMAIN program.options = DOMAIN configFile.compilerOptions \cup {"configFilePath"}
        /\ \A k \in DOMAIN configFile.compilerOptions :
              program.options[k] =
                  ConvertJsonOption(k, configFile.compilerOptions[k], PathDirname(ConfigFilePath))

\* A program created with an empty compilerOptions object and no outputDir
\* from a configuration that sets a target and an outDir
C13_Witness ==
    /\ program.created
    /\ options.compilerOptions = Given(<<>>)
    /\ ~options.outputDir.given
    /\ DOMAIN configFile.compilerOptions = {"target", "outDir"}

\* ------------------------------------------------------------------------
\* C14
\* ------------------------------------------------------------------------
\* The file at the resolved path is read and parsed as JSON
ConfigRead == ReadConfigFile(resolvedTsconfigPath, configFile).ok

\* The messages of the validation of the configuration, in its order
ValidationErrors == ParseJsonConfigFileContent(configFile, BasePath).errors
ValidationTexts ==
    [i \in 1..Len(ValidationErrors) |-> FlattenDiagnosticMessageText(ValidationErrors[i], NL)]

\* The compilerOptions of the file hold a key the grammar does not know or
\* a value of the wrong kind
HasInvalidOption ==
    \E k \in DOMAIN configFile.compilerOptions :
        k \notin OptionNames \/ ~ValidFor(k, configFile.compilerOptions[k])

\* C14: a configuration file that is read and holds an unknown option key
\* or an option value of the wrong kind, or whose validation reports any
\* message, never reaches a program: the load throws, and execute rejects
\* with the parse prefix followed by every message of the validation, in
\* the order of the validation, with one newline between consecutive ones,
\* the message of each invalid option among them.
C14_ValidationFailsLoudly ==
    (pc # "idle" /\ ConfigRead /\ (HasInvalidOption \/ Len(ValidationErrors) > 0)) =>
        /\ Len(ValidationErrors) > 0
        /\ pc \in {"load", "catch", "rejected"}
        /\ ~program.created
        /\ parsedConfig = NoConfig
        /\ pc = "rejected" =>
              /\ rejection = <<Prefix, ParsePrefix>> \o Concat(ValidationTexts, <<NL>>)
              /\ \A k \in DOMAIN configFile.compilerOptions :
                    /\ k \notin OptionNames => ContainsInOrder(rejection, <<FlattenDiagnosticMessageText(UnknownOptionError(k), NL)>>, 1)
                    /\ (k \in OptionNames /\ ~ValidFor(k, configFile.compilerOptions[k])) =>
                          ContainsInOrder(rejection, <<FlattenDiagnosticMessageText(WrongValueError(k), NL)>>, 1)

\* A rejection for a file with a target of the wrong kind, an unknown key
\* and no input file: three messages
C14_Witness ==
    /\ pc = "rejected"
    /\ ConfigRead
    /\ {"target", "declaraton"} \subseteq DOMAIN configFile.compilerOptions
    /\ ~ValidFor("target", configFile.compilerOptions["target"])
    /\ Len(ValidationErrors) = 3

ConfigDir == PathDirname(ConfigFilePath)

\* The configuration at the resolved path has been loaded
Loaded == pc \notin {"idle", "load"} /\ ~LoadFails

\* C20: for an invocation that names the configuration file by its absolute
\* path, whatever the working directory, the file names of the loaded
\* configuration are the entries of the file resolved against the directory
\* of the file, the outDir of the loaded options is the file's outDir
\* resolved against that directory, and so is an outDir of compilerOptions
\* in a program created without outputDir; the loaded configuration is the
\* same from every working directory.
C20_ConfigRelativeResolution ==
    (pc # "idle" /\ options.tsconfigPath.given) =>
        /\ BasePath = ConfigDir
        /\ Loaded =>
              /\ Len(parsedConfig.fileNames) = Len(configFile.files)
              /\ \A i \in DOMAIN configFile.files :
                    parsedConfig.fileNames[i] = ConfigDir \o configFile.files[i]
              /\ "outDir" \in DOMAIN configFile.compilerOptions =>
                    parsedConfig.options["outDir"] =
                        Str(ConfigDir \o configFile.compilerOptions["outDir"].val)
              /\ parsedConfig = ParseJsonConfigFileContent(configFile, ConfigDir)
        /\ (/\ program.created
            /\ "outDir" \in DOMAIN Overrides
            /\ Overrides["outDir"].kind = "string"
            /\ ~options.outputDir.given) =>
              program.options["outDir"] = Str(ConfigDir \o Overrides["outDir"].val)

\* A program created in a working directory other than that of the
\* configuration file, from a file that selects two inputs and sets an
\* outDir, with an outDir among the compilerOptions
C20_Witness ==
    /\ program.created
    /\ cwd = OtherDir
    /\ cwd # ConfigDir
    /\ options.tsconfigPath.given
    /\ Len(parsedConfig.fileNames) = 2
    /\ "outDir" \in DOMAIN configFile.compilerOptions
    /\ "outDir" \in DOMAIN Overrides
    /\ ~options.outputDir.given

\* ------------------------------------------------------------------------
\* C16
\* ------------------------------------------------------------------------
\* The body of execute() holds no await: once entered, it runs step after
\* step until the promise is settled
Steps == LoadConfig \/ MergeOptions \/ CreateProgram \/ Emit \/ CollectDiagnostics \/ Catch
FairNext == (\E o \in SampleRequests : Execute(o)) \/ Steps
FairSpec == Init /\ [][FairNext]_vars /\ WF_vars(Steps)

\* The outcome at hand is one of the two, and well formed: a resolution
\* follows no throw and carries no message, a rejection carries one
\* non-empty message; before the end there is no message
OutcomeWellFormed ==
    /\ pc = "resolved" => (rejection = <<>> /\ error = <<>>)
    /\ pc = "rejected" => (Len(rejection) > 0 /\ rejection[1] = Prefix /\ error # <<>>)
    /\ ~Terminal => rejection = <<>>
    /\ (Terminal /\ program.created) => (Called("emit") /\ Called("getPreEmitDiagnostics"))

\* C16: every invocation entered ends resolved or rejected; a resolution
\* carries no message and a rejection one message; the outcome, once there,
\* never changes into the other; and a compilation whose program has been
\* created has emitted and gathered its diagnostics before the end.
C16_SingleTerminalOutcome ==
    /\ [](pc # "idle" => <>Terminal)
    /\ []OutcomeWellFormed
    /\ [][Terminal => (pc' = pc /\ rejection' = rejection)]_vars

\* An invocation has ended rejected after its program was created
C16_Witness ==
    /\ pc = "rejected"
    /\ program.created
    /\ Len(rejection) > 0

\* ------------------------------------------------------------------------
\* C19
\* ------------------------------------------------------------------------
\* One invocation in a process whose log sink is of any kind
InitSinks == InitWith(LogSinks)
SpecSinks == InitSinks /\ [][Next]_vars

\* The message execute rejects with for the request, the configuration and
\* the engine results at hand, when the sink works
RejectionOfResults ==
    <<Prefix>> \o (IF LoadFails THEN StageError ELSE <<Prefix>> \o Concat(ReportedTexts, <<NL>>))

\* C19 (as stated): whatever the log sink does, a throw of its logInfo or
\* logError included, the outcome of execute is the one that the request,
\* the configuration and the engine results give with a working sink:
\* resolved when the configuration loads and no diagnostic is reported,
\* rejected otherwise, with the message of those results.
C19_OutcomeIgnoresSink ==
    Terminal =>
        /\ (pc = "resolved") = (~LoadFails /\ Len(Reported) = 0)
        /\ pc = "rejected" => rejection = RejectionOfResults

\* ------------------------------------------------------------------------
\* C17
\* ------------------------------------------------------------------------
\* The invocation at hand takes the locals l
Install(l) ==
    /\ pc' = l.pc
    /\ options' = l.options
    /\ resolvedTsconfigPath' = l.resolvedTsconfigPath
    /\ parsedConfig' = l.parsedConfig
    /\ finalCompilerOptions' = l.finalCompilerOptions
    /\ program' = l.program
    /\ emitResult' = l.emitResult
    /\ preEmitDiagnostics' = l.preEmitDiagnostics
    /\ allDiagnostics' = l.allDiagnostics
    /\ error' = l.error
    /\ rejection' = l.rejection
    /\ log' = l.log
    /\ engineCalls' = l.engineCalls

\* The first call of execute of the process
ExecuteFirst(o) == other.pc = "idle" /\ Execute(o)

\* The promise of the first call has settled: its locals are gone, and the
\* action is ready for the next call; what the first call did is kept in
\* other
Return ==
    /\ Terminal
    /\ other.pc = "idle"
    /\ other' = Locals
    /\ Install(IdleLocals)
    /\ UNCHANGED <<cwd, configFile, descriptions, logSink>>

\* The second call, with the request of the first, on an unchanged disk
ExecuteAgain == other.pc \in {"resolved", "rejected"} /\ Execute(other.options)

NextRepeat ==
    \/ \E o \in SampleRequests : ExecuteFirst(o)
    \/ Return
    \/ ExecuteAgain
    \/ Steps

SpecRepeat == Init /\ [][NextRepeat]_vars

\* The second call has ended
SecondEnded == Terminal /\ other.pc \in {"resolved", "rejected"}

\* C17: a second call of execute with the request of the first, on the same
\* configuration file and the same sources, ends with the outcome of the
\* first: resolved or rejected alike, with the same diagnostics and the
\* same message; it has gone through the same steps with the same values,
\* so that nothing of the first call shows in it.
C17_RepeatedInvocationSameOutcome ==
    SecondEnded =>
        /\ pc = other.pc
        /\ allDiagnostics = other.allDiagnostics
        /\ rejection = other.rejection
        /\ program = other.program
        /\ Locals = other

\* Two calls that have both ended rejected with the same three diagnostics
C17_Witness ==
    /\ SecondEnded
    /\ pc = "rejected"
    /\ other.pc = "rejected"
    /\ Len(allDiagnostics) = 3
    /\ Len(other.allDiagnostics) = 3

\* ------------------------------------------------------------------------
\* C18
\* ------------------------------------------------------------------------
\* The two steps of a multi-target pipeline: one configuration file, two
\* output directories, two targets
EsmRequest ==
    [tsconfigPath |-> Given(ConfigFilePath), filePaths |-> Absent,
     outputDir |-> Given(<<"dist", "esm">>),
     compilerOptions |-> Given(TargetOverride(<<"es2020">>))]
CjsRequest ==
    [tsconfigPath |-> Given(ConfigFilePath), filePaths |-> Absent,
     outputDir |-> Given(<<"dist", "cjs">>),
     compilerOptions |-> Given(TargetOverride(<<"es5">>))]
ConcurrentRequests == {EsmRequest, CjsRequest}

\* A call of execute while the other invocation, if entered, writes to
\* another output directory
ExecuteConcurrently(o) ==
    /\ other.pc = "idle" \/ other.options.outputDir # o.outputDir
    /\ Execute(o)

\* The scheduler leaves the invocation at hand where it is and goes on with
\* the other one
Switch ==
    /\ other' = Locals
    /\ Install(other)
    /\ UNCHANGED <<cwd, configFile, descriptions, logSink>>

NextConcurrent ==
    \/ \E o \in ConcurrentRequests : ExecuteConcurrently(o)
    \/ Switch
    \/ Steps

SpecConcurrent == Init /\ [][NextConcurrent]_vars

\* The invocation with the locals l is where it would be had it run alone:
\* its configuration, its options, its program and its outcome are those of
\* its own request, of the configuration file and of what the engine
\* reported for its own program
AsAlone(l) ==
    LET base == PathDirname(l.resolvedTsconfigPath)
        loaded == LoadAndParseTsConfig(l.resolvedTsconfigPath, configFile)
        expected == FinalCompilerOptions(loaded.config.options, CompilerOptionsOf(l.options),
                                         l.options.outputDir, base)
        reported == l.preEmitDiagnostics \o l.emitResult
        texts == [i \in 1..Len(reported) |-> FlattenDiagnosticMessageText(reported[i], NL)]
    IN l.pc # "idle" =>
          /\ l.resolvedTsconfigPath = PathResolve(cwd, TsconfigPathOf(l.options))
          /\ l.parsedConfig = IF l.pc = "load" THEN NoConfig ELSE loaded.config
          /\ l.finalCompilerOptions =
                 IF l.pc \in {"load", "merge"} \/ loaded.thrown THEN <<>> ELSE expected
          /\ l.program.created = (l.pc \notin {"load", "merge", "createProgram"} /\ ~loaded.thrown)
          /\ l.program.created =>
                /\ l.program.rootNames = RootNames(l.options.filePaths, loaded.config.fileNames)
                /\ l.program.options = expected
                /\ l.program.options["outDir"] = Str(l.options.outputDir.v)
          /\ l.pc \in {"resolved", "rejected"} =>
                /\ (l.pc = "resolved") = (~loaded.thrown /\ Len(reported) = 0)
                /\ l.pc = "rejected" =>
                      l.rejection = <<Prefix>> \o (IF loaded.thrown THEN loaded.message
                                                   ELSE <<Prefix>> \o Concat(texts, <<NL>>))

\* C18: of two invocations of one process that write to distinct output
\* directories, interleaved step by step in any way, each is at every moment
\* where it would be had it run alone, with its own configuration, options,
\* root names and outcome; no step of one changes anything of the other.
C18_ConcurrentInvocationsIndependent == AsAlone(Locals) /\ AsAlone(other)

\* Both invocations have created their program, with different options, and
\* have ended, one resolved and one rejected
C18_Witness ==
    /\ pc = "resolved"
    /\ other.pc = "rejected"
    /\ program.created
    /\ other.program.created
    /\ program.options # other.program.options
    /\ options # other.options

\* ------------------------------------------------------------------------
\* C21
\* ------------------------------------------------------------------------
\* The artifacts that are on the disk for certain: those of an emission
\* that reported no diagnostic
WrittenFiles ==
    IF Called("emit") /\ Len(emitResult) = 0
    THEN EmitOutputs(program.rootNames, program.options, cwd) ELSE {}

\* An output directory is named: by outputDir, by a string outDir of
\* compilerOptions, or by the outDir of the configuration file
OutputDirNamed ==
    \/ options.outputDir.given
    \/ ("outDir" \in DOMAIN Overrides /\ Overrides["outDir"].kind = "string")
    \/ ("outDir" \notin DOMAIN Overrides /\ "outDir" \in DOMAIN configFile.compilerOptions)

\* The output directory of the invocation: outputDir when supplied,
\* otherwise the merged outDir
EffectiveOutputDir ==
    IF options.outputDir.given THEN PathResolve(cwd, options.outputDir.v)
    ELSE IF "outDir" \in DOMAIN Overrides THEN PathResolve(BasePath, Overrides["outDir"].val)
    ELSE PathResolve(BasePath, configFile.compilerOptions["outDir"].val)

\* C21 (as stated): when an invocation has resolved and an output directory
\* is named, every root name of its program has an artifact on the disk
\* under the output directory: outputDir when supplied, otherwise the
\* merged outDir.
C21_ArtifactsUnderOutputDir ==
    (pc = "resolved" /\ OutputDirNamed) =>
        \A i \in DOMAIN program.rootNames :
            \E f \in WrittenFiles :
                f.source = program.rootNames[i] /\ Under(f.dir, EffectiveOutputDir)

\* ------------------------------------------------------------------------
\* C22
\* ------------------------------------------------------------------------
\* k is the outDir of an invocation that supplies outputDir
OutputDirTakesKey(k) == k = "outDir" /\ options.outputDir.given

\* C22 (as stated): in the option set of every program created, a key of
\* the configuration file that compilerOptions does not name has the value
\* of the configuration, and a key that only compilerOptions names is there
\* with the value compilerOptions gives it; the outDir of an invocation
\* that supplies outputDir is left aside.
C22_MergeKeepsAndAdds ==
    program.created =>
        /\ \A k \in DOMAIN configFile.compilerOptions \ DOMAIN Overrides :
              ~OutputDirTakesKey(k) =>
                  /\ k \in DOMAIN program.options
                  /\ program.options[k] =
                         ConvertJsonOption(k, configFile.compilerOptions[k], BasePath)
        /\ \A k \in DOMAIN Overrides \ DOMAIN configFile.compilerOptions :
              ~OutputDirTakesKey(k) => HasOverrideValue(k)

\* ------------------------------------------------------------------------
\* C23
\* ------------------------------------------------------------------------
\* text holds the file and the position of the location
NamesLocation(text, location) == \A i \in DOMAIN location : TokenCount(text, location[i]) > 0

\* C23 (as stated): for every diagnostic reported with a source file and a
\* position, the error event logged for it and the message execute
\* rejects with name that file and position.
C23_ReportsCarryLocations ==
    (pc = "rejected" /\ DiagnosticsFound) =>
        \A i \in DOMAIN Reported :
            Len(DiagnosticLocation(Reported[i])) > 0 =>
                /\ NamesLocation(rejection, DiagnosticLocation(Reported[i]))
                /\ \E j \in DOMAIN ErrorEvents :
                      /\ ErrorEvents[j].text[1] = ErrorLogPrefix
                      /\ NamesLocation(ErrorEvents[j].text, DiagnosticLocation(Reported[i]))

\* ------------------------------------------------------------------------
\* C24
\* ------------------------------------------------------------------------
\* A describe that logs the description as well
Describe_Logging ==
    /\ Len(descriptions) < MaxDescribes
    /\ descriptions' = Append(descriptions, DescribeText)
    /\ log' = Append(log, Info(DescribeText))
    /\ UNCHANGED <<cwd, configFile, logSink, other, pc, options, resolvedTsconfigPath,
                   parsedConfig, finalCompilerOptions, program, emitResult,
                   preEmitDiagnostics, allDiagnostics, error, rejection, engineCalls>>

\* describe(): returns the description, and nothing else
Describe ==
    /\ Len(descriptions) < MaxDescribes
    /\ descriptions' = Append(descriptions, DescribeText)
    /\ UNCHANGED <<cwd, configFile, logSink, other, pc, options, resolvedTsconfigPath,
                   parsedConfig, finalCompilerOptions, program, emitResult,
                   preEmitDiagnostics, allDiagnostics, error, rejection, log, engineCalls>>

\* One invocation of execute, with calls of describe before it, between
\* its steps and after it
NextDescribe == FairNext \/ Describe
SpecDescribe == Init /\ [][NextDescribe]_vars

\* Everything but the record of what describe returned
ExecuteState ==
    <<cwd, configFile, logSink, other, pc, options, resolvedTsconfigPath, parsedConfig,
      finalCompilerOptions, program, emitResult, preEmitDiagnostics, allDiagnostics, error,
      rejection, log, engineCalls>>

\* C24: every call of describe, before execute is entered, between its
\* steps or after its end, returns one and the same description, which
\* mentions TypeScript and tsconfig; the call logs no event, asks the
\* engine for nothing and leaves the invocation where it is.
C24_DescribeIsPure ==
    /\ [](\A i \in DOMAIN descriptions :
             /\ descriptions[i] = descriptions[1]
             /\ TokenCount(descriptions[i], "TypeScript") > 0
             /\ TokenCount(descriptions[i], "tsconfig") > 0)
    /\ [][descriptions' # descriptions =>
             /\ Len(descriptions') = Len(descriptions) + 1
             /\ ExecuteState' = ExecuteState]_vars

\* describe has been called before execute and after its rejection
C24_Witness ==
    /\ Len(descriptions) = 2
    /\ pc = "rejected"
    /\ Len(log) > 1
    /\ Len(engineCalls) > 0

\* ------------------------------------------------------------------------
\* C25
\* ------------------------------------------------------------------------
\* The calls of the engine by stage: load (read and parse), merge (convert),
\* compile (create the program and emit), collect
StageCalls ==
    <<"readConfigFile", "parseJsonConfigFileContent", "convertCompilerOptionsFromJson",
      "createProgram", "emit", "getPreEmitDiagnostics">>

IsPrefix(s, t) == Len(s) <= Len(t) /\ SubSeq(t, 1, Len(s)) = s

\* How far execute has come
Rank(p) ==
    CASE p = "idle" -> 0
      [] p = "load" -> 1
      [] p = "merge" -> 2
      [] p = "createProgram" -> 3
      [] p = "emit" -> 4
      [] p = "collect" -> 5
      [] p = "catch" -> 6
      [] OTHER -> 7

\* C25: the engine is called stage by stage in the order load, merge,
\* compile, collect, each call at most once; the merge starts only when the
\* load has returned a configuration, the compilation only with the merged
\* options, the collection only after the emission; after a throw no
\* further stage starts; and execute never steps back to an earlier stage.
C25_StageOrdering ==
    /\ [](/\ IsPrefix(engineCalls, StageCalls)
          /\ Called("convertCompilerOptionsFromJson") =>
                (~LoadFails /\ parsedConfig = ParseJsonConfigFileContent(configFile, BasePath))
          /\ Called("createProgram") =>
                (program.created /\ program.options = finalCompilerOptions)
          /\ Called("getPreEmitDiagnostics") => Called("emit")
          /\ (error # <<>> /\ ~Called("getPreEmitDiagnostics")) =>
                engineCalls \in {<<"readConfigFile">>,
                                 <<"readConfigFile", "parseJsonConfigFileContent">>})
    /\ [][/\ Rank(pc') >= Rank(pc)
          /\ IsPrefix(engineCalls, engineCalls')
          /\ pc \in {"catch", "resolved", "rejected"} => engineCalls' = engineCalls]_vars

\* An invocation has gone through all four stages and ended resolved
C25_Witness ==
    /\ pc = "resolved"
    /\ engineCalls = StageCalls

\* ------------------------------------------------------------------------
\* C26
\* ------------------------------------------------------------------------
\* How often calls holds the call name
CountIn(calls, name) == Cardinality({i \in DOMAIN calls : calls[i] = name})

\* The invocation with the locals l has asked the engine for each thing at
\* most once, and its program, if it has one, is the one it created itself
SingleAttempt(l) ==
    /\ \A i \in DOMAIN StageCalls : CountIn(l.engineCalls, StageCalls[i]) <= 1
    /\ l.program.created = (CountIn(l.engineCalls, "createProgram") = 1)
    /\ CountIn(l.engineCalls, "emit") = 1 => CountIn(l.engineCalls, "createProgram") = 1
    /\ l.pc \in {"catch", "rejected"} =>
          l.engineCalls \in {SubSeq(StageCalls, 1, n) : n \in {1, 2, 6}}

\* C26: every invocation, the first of a process and the second alike,
\* reads the configuration at most once, creates at most one program and
\* asks for emission at most once; after an error or a diagnostic it asks
\* the engine for nothing again; and the program of an invocation is one it
\* has created itself, never the one of the earlier invocation.
C26_SingleAttempt == SingleAttempt(Locals) /\ SingleAttempt(other)

\* Two invocations have ended rejected because of diagnostics, each with a
\* program of its own
C26_Witness ==
    /\ SecondEnded
    /\ pc = "rejected"
    /\ program.created
    /\ other.program.created
    /\ Len(allDiagnostics) > 0
    /\ engineCalls = StageCalls
    /\ other.engineCalls = StageCalls

\* ------------------------------------------------------------------------
\* C27
\* ------------------------------------------------------------------------
\* The place of the call name among the engine calls, 0 when it is not there
PlaceOf(name) ==
    IF Called(name) THEN Least({i \in DOMAIN engineCalls : engineCalls[i] = name}) ELSE 0

\* C27: an invocation whose configuration loads asks for the emission
\* exactly once by its end, and has asked for it before it gathers the
\* diagnostics of the analysis, whatever those turn out to be; so an
\* invocation rejected because of such a diagnostic has asked for the
\* emission all the same.
C27_EmissionUnconditional ==
    /\ (Loaded /\ Terminal) => CallCount("emit") = 1
    /\ (Loaded /\ pc = "collect") => (CallCount("emit") = 1 /\ ~Called("getPreEmitDiagnostics"))
    /\ Called("getPreEmitDiagnostics") =>
          (CallCount("emit") = 1 /\ PlaceOf("emit") < PlaceOf("getPreEmitDiagnostics"))
    /\ (pc = "rejected" /\ Len(preEmitDiagnostics) > 0) => Called("emit")

\* A rejection because of a diagnostic of the analysis alone, after an
\* emission without diagnostics
C27_Witness ==
    /\ pc = "rejected"
    /\ Len(preEmitDiagnostics) = 1
    /\ Len(emitResult) = 0
    /\ Called("emit")

\* ------------------------------------------------------------------------
\* C28
\* ------------------------------------------------------------------------
\* The error events of the forEach over the diagnostics, in log order
DiagnosticEvents ==
    SelectSeq(log, LAMBDA e : e.level = "error" /\ Len(e.text) > 0 /\ e.text[1] = ErrorLogPrefix)

\* The texts those events carry after their prefix
EventEntries == [i \in 1..Len(DiagnosticEvents) |-> Tail(DiagnosticEvents[i].text)]

\* C28: the error events logged for the diagnostics of a rejected
\* invocation come in the order of the entries of the aggregated message:
\* one event per entry, the entries of the analysis before those of the
\* emission, each event with the flattened text of its entry, so that the
\* texts of the events joined by newlines are the message after its prefixes.
C28_LogOrderMatchesMessageOrder ==
    (pc = "rejected" /\ DiagnosticsFound) =>
        /\ Len(DiagnosticEvents) = Len(Reported)
        /\ rejection = <<Prefix, Prefix>> \o Concat(EventEntries, <<NL>>)
        /\ \A i \in 1..Len(preEmitDiagnostics) :
              EventEntries[i] = FlattenDiagnosticMessageText(preEmitDiagnostics[i], NL)
        /\ \A j \in 1..Len(emitResult) :
              EventEntries[Len(preEmitDiagnostics) + j] =
                  FlattenDiagnosticMessageText(emitResult[j], NL)

\* A rejection after two different diagnostics of the analysis and one of
\* the emission
C28_Witness ==
    /\ pc = "rejected"
    /\ Len(preEmitDiagnostics) = 2
    /\ preEmitDiagnostics[1] # preEmitDiagnostics[2]
    /\ Len(emitResult) = 1
    /\ Len(DiagnosticEvents) = 3

====
